---- MODULE Spec2Model ----
(***************************************************************************)
(* Multi-user access control console: credential store and lockout         *)
(* (auth.py), session registry (session.py), audit log (logger.py), admin  *)
(* operations (admin.py), command dispatcher (command_dispatcher.py) and    *)
(* the login step of the interactive loop (main.py).                       *)
(***************************************************************************)
EXTENDS Integers, Sequences, FiniteSets, TLC

\* ------------------------------------------------------------------ bounds
\* longest audit log (entries after the header line) the model explores
MaxLog == 3
\* last value of the wall clock the model explores
MaxClock == 1
\* number of distinct session tokens the model draws from
MaxTokens == 2

\* ------------------------------------------------------- program constants
MAX_FAILED_ATTEMPTS == 3
MIN_PASSWORD_LEN == 4
MIN_USERNAME_LEN == 3

\* ------------------------------------------------------------ input values
Usernames == {"admin", "bob"}
Passwords == {"admin123", "pass"}
RoleArgs == {"admin", "user", "root"}
\* passwords typed at the console, one of them too short to be accepted
TypedPasswords == Passwords \cup {"abc"}
\* usernames typed at the console, one of them too short to be accepted
TypedUsernames == Usernames \cup {"al"}
\* secrets.token_urlsafe(32): the tokens a process can draw
Tokens == {"t" \o ToString(i) : i \in 1..MaxTokens}
\* end of input at a prompt
EOF == "<EOF>"

\* Python's None, where a value is optional
None == "None"

VARIABLES
    users,          \* users.json: username -> [password_hash, role, locked]
    lockout_state,  \* AuthModule.lockout_state: username -> failed attempts
    sessions,       \* SessionManager.sessions: token -> session data
    current_token,  \* SessionManager.current_token
    log,            \* logs.txt: the header line, then the entries appended
    csv,            \* logs.csv: the rows last exported, <<>> before any export
    now,            \* datetime.now()
    last,           \* the call made last and what it returned
    lock_history,        \* history: what became of each username's lock
    consecutive_wrong,   \* history: wrong passwords in a row from counter 0
    wrong_since_success  \* history: wrong passwords since the last success,
                         \*          and those that success wiped

history == <<lock_history, consecutive_wrong, wrong_since_success>>

vars == <<users, lockout_state, sessions, current_token, log, csv, now, last,
          lock_history, consecutive_wrong, wrong_since_success>>

\* ------------------------------------------------------------ dictionaries
EmptyDict == [k \in {} |-> None]

Get(d, k, default) == IF k \in DOMAIN d THEN d[k] ELSE default

Put(d, k, v) == [x \in DOMAIN d \cup {k} |-> IF x = k THEN v ELSE d[x]]

Del(d, k) == [x \in DOMAIN d \ {k} |-> d[x]]

\* ------------------------------------------------------------------ auth.py
_hash_password(password) == <<"sha256", password>>

default_users ==
    Put(EmptyDict, "admin",
        [password_hash |-> _hash_password("admin123"),
         role |-> "admin", locked |-> FALSE])

\* lines 25-34: users.json is written with the default admin only when no
\* users.json exists; a file holding {} exists
_ensure_users_file_seeds_empty(exists, us) ==
    IF ~exists \/ us = EmptyDict THEN default_users ELSE us

_ensure_users_file(exists, us) == IF ~exists THEN default_users ELSE us

\* what a call returns, with the store and the counters it leaves behind
Outcome(us, ls, ok, msg) ==
    [users |-> us, lockout_state |-> ls, ok |-> ok, msg |-> msg]

\* lines 83-84: the attempts left after one more failure, and whether any is
remaining_off_by_one(failed_attempts) == MAX_FAILED_ATTEMPTS - failed_attempts

remaining_attempts(failed_attempts) ==
    MAX_FAILED_ATTEMPTS - (failed_attempts + 1)

attempts_left_late(remaining) == remaining >= 0

attempts_left_early(remaining) == remaining > 1

attempts_left(remaining) == remaining > 0

\* line 92: a successful login resets the failed attempts
reset_forgotten(ls, username) == ls

reset_failed_attempts(ls, username) == Put(ls, username, 0)

\* lines 62-63: the username is not in the store
unknown_identity_named(us, ls, username) ==
    Outcome(us, ls, FALSE, "User '" \o username \o "' does not exist")

unknown_identity_counted(us, ls, username) ==
    Outcome(us, Put(ls, username, Get(ls, username, 0) + 1), FALSE,
            "Invalid username or password")

unknown_identity(us, ls, username) ==
    Outcome(us, ls, FALSE, "Invalid username or password")

authenticate(us, ls, username, password) ==
    IF username \notin DOMAIN us
    THEN unknown_identity(us, ls, username)
    ELSE IF us[username].locked
    THEN Outcome(us, ls, FALSE,
                 "Account is locked. Please contact an administrator.")
    ELSE LET failed_attempts == Get(ls, username, 0)
             lockedUsers == [us EXCEPT ![username].locked = TRUE]
         IN  IF failed_attempts >= MAX_FAILED_ATTEMPTS
             THEN Outcome(lockedUsers, ls, FALSE,
                     "Account locked due to too many failed login attempts.")
             ELSE IF us[username].password_hash # _hash_password(password)
             THEN LET counted == Put(ls, username, failed_attempts + 1)
                      remaining == remaining_attempts(failed_attempts)
                  IN  IF attempts_left(remaining)
                      THEN Outcome(us, counted, FALSE,
                              "Invalid password. " \o ToString(remaining)
                                  \o " attempt(s) remaining.")
                      ELSE Outcome(lockedUsers, counted, FALSE,
                              "Account locked due to too many failed login attempts.")
             ELSE Outcome(us, reset_failed_attempts(ls, username),
                          TRUE, "Login successful")

\* the stored role is not read: every user gets the default role
get_user_role_default(us, username) ==
    IF username \in DOMAIN us THEN "user" ELSE None

get_user_role(us, username) ==
    IF username \in DOMAIN us THEN us[username].role ELSE None

add_user_overwrites(us, ls, username, password, role) ==
    IF role \notin {"admin", "user"}
    THEN Outcome(us, ls, FALSE, "Role must be 'admin' or 'user'")
    ELSE Outcome(Put(us, username,
                     [password_hash |-> _hash_password(password),
                      role |-> role, locked |-> FALSE]),
                 ls, TRUE, "User '" \o username \o "' added successfully")

add_user_any_role(us, ls, username, password, role) ==
    IF username \in DOMAIN us
    THEN Outcome(us, ls, FALSE, "User '" \o username \o "' already exists")
    ELSE Outcome(Put(us, username,
                     [password_hash |-> _hash_password(password),
                      role |-> role, locked |-> FALSE]),
                 ls, TRUE, "User '" \o username \o "' added successfully")

add_user(us, ls, username, password, role) ==
    IF username \in DOMAIN us
    THEN Outcome(us, ls, FALSE, "User '" \o username \o "' already exists")
    ELSE IF role \notin {"admin", "user"}
    THEN Outcome(us, ls, FALSE, "Role must be 'admin' or 'user'")
    ELSE Outcome(Put(us, username,
                     [password_hash |-> _hash_password(password),
                      role |-> role, locked |-> FALSE]),
                 ls, TRUE, "User '" \o username \o "' added successfully")

remove_user_keeps_counter(us, ls, username) ==
    IF username \notin DOMAIN us
    THEN Outcome(us, ls, FALSE, "User '" \o username \o "' does not exist")
    ELSE Outcome(Del(us, username), ls, TRUE,
                 "User '" \o username \o "' removed successfully")

remove_user(us, ls, username) ==
    IF username \notin DOMAIN us
    THEN Outcome(us, ls, FALSE, "User '" \o username \o "' does not exist")
    ELSE Outcome(Del(us, username), Del(ls, username), TRUE,
                 "User '" \o username \o "' removed successfully")

unlock_user_keeps_counter(us, ls, username) ==
    IF username \notin DOMAIN us
    THEN Outcome(us, ls, FALSE, "User '" \o username \o "' does not exist")
    ELSE Outcome([us EXCEPT ![username].locked = FALSE], ls,
                 TRUE, "User '" \o username \o "' unlocked successfully")

unlock_user(us, ls, username) ==
    IF username \notin DOMAIN us
    THEN Outcome(us, ls, FALSE, "User '" \o username \o "' does not exist")
    ELSE Outcome([us EXCEPT ![username].locked = FALSE],
                 IF username \in DOMAIN ls THEN Put(ls, username, 0) ELSE ls,
                 TRUE, "User '" \o username \o "' unlocked successfully")

\* lines 188-190 left out: the current password is not verified
change_password_unverified(us, ls, username, old_password, new_password) ==
    IF username \notin DOMAIN us
    THEN Outcome(us, ls, FALSE, "User does not exist")
    ELSE Outcome([us EXCEPT ![username].password_hash =
                                 _hash_password(new_password)],
                 ls, TRUE, "Password changed successfully")

change_password(us, ls, username, old_password, new_password) ==
    IF username \notin DOMAIN us
    THEN Outcome(us, ls, FALSE, "User does not exist")
    ELSE IF us[username].password_hash # _hash_password(old_password)
    THEN Outcome(us, ls, FALSE, "Current password is incorrect")
    ELSE Outcome([us EXCEPT ![username].password_hash =
                                 _hash_password(new_password)],
                 ls, TRUE, "Password changed successfully")

\* --------------------------------------------------------------- session.py
create_session_keeps_current(ss, ct, username, role, token, t) ==
    [sessions |-> Put(ss, token, [username |-> username, role |-> role,
                                  created_at |-> t, last_activity |-> t]),
     current_token |-> IF ct = None THEN token ELSE ct]

create_session(ss, ct, username, role, token, t) ==
    [sessions |-> Put(ss, token, [username |-> username, role |-> role,
                                  created_at |-> t, last_activity |-> t]),
     current_token |-> token]

is_authenticated(ss, ct) == ct # None /\ ct \in DOMAIN ss

\* the None that _get_current_session returns without a current session
NoSession ==
    [username |-> None, role |-> None,
     created_at |-> -1, last_activity |-> -1]

_get_current_session(ss, ct) ==
    IF ct # None /\ ct \in DOMAIN ss THEN ss[ct] ELSE NoSession

get_current_user(ss, ct) == _get_current_session(ss, ct).username

get_current_role(ss, ct) == _get_current_session(ss, ct).role

get_session_info(ss, ct) == _get_current_session(ss, ct)

is_admin(ss, ct) == get_current_role(ss, ct) = "admin"

\* a registry with an idle timeout: a session found idle is ended
update_activity_expires(ss, ct, t) ==
    IF _get_current_session(ss, ct) # NoSession
    THEN IF t > ss[ct].last_activity
         THEN Del(ss, ct)
         ELSE [ss EXCEPT ![ct].last_activity = t]
    ELSE ss

update_activity(ss, ct, t) ==
    IF _get_current_session(ss, ct) # NoSession
    THEN [ss EXCEPT ![ct].last_activity = t]
    ELSE ss

\* lines 67-70 left out: the session and its token stay
end_session_keeps_session(ss, ct) == [sessions |-> ss, current_token |-> ct]

end_session(ss, ct) ==
    IF ct # None
    THEN [sessions |-> IF ct \in DOMAIN ss THEN Del(ss, ct) ELSE ss,
          current_token |-> None]
    ELSE [sessions |-> ss, current_token |-> ct]

\* ---------------------------------------------------------------- logger.py
HeaderLine ==
    [timestamp |-> -1, level |-> "", username |-> "",
     message |-> "=== System Logs ==="]

\* lines 25-27: logs.txt is written with its header line only when no
\* logs.txt exists
_ensure_log_file_truncates(exists, lg) == <<HeaderLine>>

_ensure_log_file(exists, lg) == IF ~exists THEN <<HeaderLine>> ELSE lg

\* the text of a line of logs.txt
Render(line) ==
    IF line = HeaderLine THEN "=== System Logs ===\n"
    ELSE "[" \o ToString(line.timestamp) \o "] [" \o line.level \o "]"
         \o (IF line.username \notin {None, ""}
             THEN " [" \o line.username \o "]" ELSE "")
         \o " " \o line.message \o "\n"

_write_log(lg, level, message, username, t) ==
    Append(lg, [timestamp |-> t, level |-> level,
                username |-> username, message |-> message])

Status(success) == IF success THEN "SUCCESS" ELSE "FAILED"

log_login_attempt(lg, username, success, t) ==
    _write_log(lg, "LOGIN",
        "Login attempt " \o Status(success) \o " for user: " \o username,
        username, t)

log_command(lg, username, command, success, t) ==
    _write_log(lg, "COMMAND",
        "Command '" \o command \o "' executed - " \o Status(success),
        username, t)

log_admin_action(lg, username, action, target, t) ==
    _write_log(lg, "ADMIN",
        "Admin action: " \o action
            \o (IF target \notin {None, ""} THEN " on " \o target ELSE ""),
        username, t)

log_error(lg, username, error, t) ==
    _write_log(lg, "ERROR", error, username, t)

RECURSIVE Join(_)
Join(lines) ==
    IF lines = <<>> THEN ""
    ELSE Render(Head(lines)) \o Join(Tail(lines))

\* all_lines[-lines:] with Python's slice rules
TailSlice(all_lines, lines) ==
    LET n == Len(all_lines)
        start == IF lines = 0 THEN 0
                 ELSE IF lines > 0
                      THEN (IF lines >= n THEN 0 ELSE n - lines)
                      ELSE (IF -lines >= n THEN n ELSE -lines)
    IN  SubSeq(all_lines, start + 1, n)

\* lines is <<>> for None and <<n>> for the number n
view_logs(lg, lines) ==
    IF lines = <<>> THEN Join(lg) ELSE Join(TailSlice(lg, lines[1]))

\* str.find(ch, start): positions count from 0, -1 when ch does not occur
find(s, ch, start) ==
    LET hits == {i \in start..(Len(s) - 1) : SubSeq(s, i + 1, i + 1) = ch}
    IN  IF hits = {} THEN -1
        ELSE CHOOSE i \in hits : \A j \in hits : i <= j

\* s[a:b] with Python's slice rules
Slice(s, a, b) ==
    LET n == Len(s)
        Clip(x) == IF x < 0 THEN (IF x + n < 0 THEN 0 ELSE x + n)
                   ELSE (IF x > n THEN n ELSE x)
    IN  IF Clip(b) <= Clip(a) THEN "" ELSE SubSeq(s, Clip(a) + 1, Clip(b))

startswith(s, prefix) ==
    Len(s) >= Len(prefix) /\ SubSeq(s, 1, Len(prefix)) = prefix

Whitespace == {" ", "\n", "\t", "\r"}

RECURSIVE lstrip(_)
lstrip(s) ==
    IF s # "" /\ SubSeq(s, 1, 1) \in Whitespace
    THEN lstrip(Slice(s, 1, Len(s))) ELSE s

RECURSIVE rstrip(_)
rstrip(s) ==
    IF s # "" /\ SubSeq(s, Len(s), Len(s)) \in Whitespace
    THEN rstrip(Slice(s, 0, Len(s) - 1)) ELSE s

strip(s) == rstrip(lstrip(s))

\* f.readlines(): the text cut after each newline
RECURSIVE readlines(_)
readlines(text) ==
    IF text = "" THEN <<>>
    ELSE LET nl == find(text, "\n", 0)
         IN  IF nl = -1 THEN <<text>>
             ELSE <<Slice(text, 0, nl + 1)>>
                      \o readlines(Slice(text, nl + 1, Len(text)))

_read_log_lines(lg) == readlines(Join(lg))

\* the row of a line, or <<>> for None
_parse_log_line(line) ==
    IF ~startswith(line, "[") THEN <<>>
    ELSE LET end_timestamp == find(line, "]", 1)
             timestamp == Slice(line, 1, end_timestamp)
             start_level == find(line, "[", end_timestamp + 1)
             end_level == find(line, "]", start_level + 1)
             level == Slice(line, start_level + 1, end_level)
             remaining == strip(Slice(line, end_level + 1, Len(line)))
             end_username == find(remaining, "]", 1)
         IN  IF startswith(remaining, "[")
             THEN <<timestamp, level, Slice(remaining, 1, end_username),
                    strip(Slice(remaining, end_username + 1, Len(remaining)))>>
             ELSE <<timestamp, level, "", remaining>>

CsvHeader == <<"Timestamp", "Level", "Username", "Message">>

\* lines 97-104: the rows of the lines that are neither empty, nor start
\* with ===, nor fail to parse
RECURSIVE parsed_entries(_)
parsed_entries(log_lines) ==
    IF log_lines = <<>> THEN <<>>
    ELSE LET line == strip(Head(log_lines))
             parsed_entry == IF line = "" \/ startswith(line, "===")
                             THEN <<>> ELSE _parse_log_line(line)
         IN  (IF parsed_entry = <<>> THEN <<>> ELSE <<parsed_entry>>)
                 \o parsed_entries(Tail(log_lines))

_parse_logs_to_csv_without_header(log_lines) == parsed_entries(log_lines)

_parse_logs_to_csv(log_lines) == <<CsvHeader>> \o parsed_entries(log_lines)

\* the rows written to logs.csv and the pair returned
export_to_csv(lg) ==
    [csv |-> _parse_logs_to_csv(_read_log_lines(lg)),
     ok |-> TRUE, msg |-> "Logs exported to logs.csv"]

\* ----------------------------------------------------------------- admin.py
\* what a console operation returns, with the state it leaves behind
Result(st, ok, msg) == [st |-> st, ok |-> ok, msg |-> msg, raised |-> ""]

Raised(st, exception) ==
    [st |-> st, ok |-> FALSE, msg |-> "", raised |-> exception]

\* lines 35-36 of logger.py: open(self.log_file, 'a') is not guarded, so
\* when logs.txt cannot be appended to, the OSError leaves the operation at
\* its first log call, with the state reached by then
Logging(st, r) == IF st.appendable THEN r ELSE Raised(st, "OSError")

AdminTools_add_user(st, username, password, role, current_user, t) ==
    IF username = "" \/ password = ""
    THEN Result(st, FALSE, "Username and password are required")
    ELSE IF Len(username) < MIN_USERNAME_LEN
    THEN Result(st, FALSE, "Username must be at least 3 characters")
    ELSE IF Len(password) < MIN_PASSWORD_LEN
    THEN Result(st, FALSE, "Password must be at least 4 characters")
    ELSE LET r == add_user(st.users, st.lockout_state,
                           username, password, role)
             added == [st EXCEPT !.users = r.users,
                                 !.lockout_state = r.lockout_state]
             logged == log_command(
                           log_admin_action(st.log, current_user,
                                            "add_user", username, t),
                           current_user, "add_user " \o username, TRUE, t)
         IN  IF r.ok
             THEN Logging(added,
                          Result([added EXCEPT !.log = logged], r.ok, r.msg))
             ELSE Result(added, r.ok, r.msg)

\* lines 42-43 left out: the caller's own account is removed like any other
AdminTools_remove_user_allows_self(st, username, current_user, t) ==
    IF username = ""
    THEN Result(st, FALSE, "Username is required")
    ELSE LET r == remove_user(st.users, st.lockout_state, username)
             removed == [st EXCEPT !.users = r.users,
                                   !.lockout_state = r.lockout_state]
             logged == log_command(
                           log_admin_action(st.log, current_user,
                                            "remove_user", username, t),
                           current_user, "remove_user " \o username, TRUE, t)
         IN  IF r.ok
             THEN Logging(removed,
                          Result([removed EXCEPT !.log = logged], r.ok, r.msg))
             ELSE Result(removed, r.ok, r.msg)

AdminTools_remove_user(st, username, current_user, t) ==
    IF username = ""
    THEN Result(st, FALSE, "Username is required")
    ELSE IF username = current_user
    THEN Result(st, FALSE, "Cannot remove your own account")
    ELSE LET r == remove_user(st.users, st.lockout_state, username)
             removed == [st EXCEPT !.users = r.users,
                                   !.lockout_state = r.lockout_state]
             logged == log_command(
                           log_admin_action(st.log, current_user,
                                            "remove_user", username, t),
                           current_user, "remove_user " \o username, TRUE, t)
         IN  IF r.ok
             THEN Logging(removed,
                          Result([removed EXCEPT !.log = logged], r.ok, r.msg))
             ELSE Result(removed, r.ok, r.msg)

AdminTools_view_logs(st, lines, current_user, t) ==
    LET logged == log_command(st.log, current_user, "view_logs", TRUE, t)
    IN  Logging(st, Result([st EXCEPT !.log = logged], TRUE,
                           view_logs(logged, lines)))

AdminTools_unlock_user(st, username, current_user, t) ==
    IF username = ""
    THEN Result(st, FALSE, "Username is required")
    ELSE LET r == unlock_user(st.users, st.lockout_state, username)
             unlocked == [st EXCEPT !.users = r.users,
                                    !.lockout_state = r.lockout_state]
             logged == log_command(
                           log_admin_action(st.log, current_user,
                                            "unlock_user", username, t),
                           current_user, "unlock_user " \o username, TRUE, t)
         IN  IF r.ok
             THEN Logging(unlocked,
                          Result([unlocked EXCEPT !.log = logged], r.ok, r.msg))
             ELSE Result(unlocked, r.ok, r.msg)

\* ---------------------------------------------------- command_dispatcher.py
\* command.lower().strip(), on the commands the model types
lower_strip(command) ==
    CASE command = "STATUS" -> "status"
      [] command = " help " -> "help"
      [] OTHER -> command

voice_command_map ==
    [k \in {"add user", "remove user", "view logs", "change password",
            "export logs", "exit voice mode"} |->
        CASE k = "add user" -> "add_user"
          [] k = "remove user" -> "remove_user"
          [] k = "view logs" -> "view_logs"
          [] k = "change password" -> "change_password"
          [] k = "export logs" -> "export_logs"
          [] k = "exit voice mode" -> "exit voice mode"]

_normalize_command(command) ==
    Get(voice_command_map, lower_strip(command), lower_strip(command))

_get_help_menu(st) ==
    "\n=== Available Commands ===\n\nGeneral Commands:\n"
    \o "  status          - Show current session information\n"
    \o "  logout          - Log out of the system\n"
    \o "  help            - Show this help menu\n"
    \o "  change password - Change your password\n"
    \o (IF is_admin(st.sessions, st.current_token)
        THEN "\nAdmin Commands:\n"
             \o "  add user <username> <password> [role]  - Add a new user\n"
             \o "  remove user <username>                 - Remove a user\n"
             \o "  view logs [lines]                      - View system logs\n"
             \o "  export logs                           - Export logs to CSV\n"
        ELSE "")
    \o "\nVoice Commands:\n"
    \o "  Type 'voice' to enter voice command mode\n"
    \o "  Available voice commands: status, logout, help, change password\n"
    \o (IF is_admin(st.sessions, st.current_token)
        THEN "  Admin voice commands: add user, remove user, view logs, export logs\n"
        ELSE "")
    \o "  Note: Voice recognition requires internet connection\n\n"

_handle_status(st, username, t) ==
    LET session_info == get_session_info(st.sessions, st.current_token)
    IN  IF session_info # NoSession
        THEN Logging(st,
                 Result([st EXCEPT !.log =
                            log_command(@, username, "status", TRUE, t)],
                        TRUE,
                        "Logged in as: " \o username \o "\nRole: "
                            \o session_info.role \o "\nSession started: "
                            \o ToString(session_info.created_at)))
        ELSE Result(st, FALSE, "Session information not available")

_handle_logout(st, username, t) ==
    LET ended == end_session(st.sessions, st.current_token)
    IN  Logging(st,
            Result([st EXCEPT
                       !.log = log_command(@, username, "logout", TRUE, t),
                       !.sessions = ended.sessions,
                       !.current_token = ended.current_token],
                   TRUE, "Logged out successfully"))

\* what the prompts return: the typed lines, or None at end of input
_prompt_for_passwords(inputs) ==
    IF EOF \in {inputs[i] : i \in 1..Len(inputs)} \/ Len(inputs) < 2
    THEN <<>>
    ELSE <<inputs[1], inputs[2]>>

\* line 163: the new password is shorter than the minimum
new_password_missing(new_password) == new_password = ""

new_password_too_short(new_password) == Len(new_password) < MIN_PASSWORD_LEN

_handle_change_password(st, username, args, inputs, t) ==
    LET prompted == _prompt_for_passwords(inputs)
        given == IF Len(args) = 0 THEN prompted ELSE args
    IN  IF Len(args) = 0 /\ prompted = <<>>
        THEN Result(st, FALSE, "Command cancelled")
        ELSE IF Len(args) = 1
        THEN Result(st, FALSE,
                    "Usage: change password <old_password> <new_password>")
        ELSE LET old_password == given[1]
                 new_password == given[2]
                 r == change_password(st.users, st.lockout_state, username,
                                      old_password, new_password)
             IN  IF new_password_too_short(new_password)
                 THEN Result(st, FALSE,
                             "New password must be at least 4 characters")
                 ELSE LET changed == [st EXCEPT
                                         !.users = r.users,
                                         !.lockout_state = r.lockout_state]
                      IN  Logging(changed,
                              Result([changed EXCEPT !.log =
                                         log_command(@, username,
                                             "change_password", r.ok, t)],
                                     r.ok, r.msg))

_prompt_for_new_user(inputs) ==
    IF EOF \in {inputs[i] : i \in 1..Len(inputs)} \/ Len(inputs) < 3
    THEN <<>>
    ELSE <<inputs[1], inputs[2],
           IF inputs[3] \in {"admin", "user"} THEN inputs[3] ELSE "user">>

_handle_add_user(st, username, args, inputs, t) ==
    LET prompted == _prompt_for_new_user(inputs)
        given == IF Len(args) = 0 THEN prompted ELSE args
    IN  IF Len(args) = 0 /\ prompted = <<>>
        THEN Result(st, FALSE, "Command cancelled")
        ELSE IF Len(args) = 1
        THEN Result(st, FALSE, "Usage: add user <username> <password> [role]")
        ELSE AdminTools_add_user(st, given[1], given[2],
                 IF Len(given) > 2 THEN given[3] ELSE "user", username, t)

\* the confirmation is read with input(): end of input raises EOFError
_handle_remove_user(st, username, args, inputs, t) ==
    IF Len(args) < 1
    THEN Result(st, FALSE, "Usage: remove user <username>")
    ELSE IF inputs = <<>> \/ inputs[1] = EOF
    THEN Raised(st, "EOFError")
    ELSE IF inputs[1] # "yes"
    THEN Result(st, FALSE, "User removal cancelled")
    ELSE AdminTools_remove_user(st, args[1], username, t)

\* int(args[0]) on the arguments the model types; <<>> is ValueError
int(text) ==
    CASE text = "0" -> <<0>>
      [] text = "1" -> <<1>>
      [] text = "2" -> <<2>>
      [] text = "-1" -> <<-1>>
      [] OTHER -> <<>>

_handle_view_logs(st, username, args, t) ==
    IF Len(args) > 0 /\ int(args[1]) = <<>>
    THEN Result(st, FALSE, "Invalid number of lines. Usage: view logs [lines]")
    ELSE AdminTools_view_logs(st,
             IF Len(args) > 0 THEN int(args[1]) ELSE <<>>, username, t)

\* _handle_export_logs(self, username) is called with (username, args)
_handle_export_logs(st, username, args) == Raised(st, "TypeError")

admin_commands == {"add_user", "remove_user", "view_logs", "export_logs"}

_route_command(st, command, args, username, inputs, t) ==
    IF command = "exit voice mode"
    THEN Result(st, FALSE, "This command should be handled by the main loop")
    ELSE IF command = "help" THEN Result(st, TRUE, _get_help_menu(st))
    ELSE IF command = "status" THEN _handle_status(st, username, t)
    ELSE IF command = "logout" THEN _handle_logout(st, username, t)
    ELSE IF command = "change_password"
    THEN _handle_change_password(st, username, args, inputs, t)
    ELSE IF command \in admin_commands
    THEN IF ~is_admin(st.sessions, st.current_token)
         THEN Result(st, FALSE, "Permission denied: Admin access required.")
         ELSE CASE command = "add_user" ->
                       _handle_add_user(st, username, args, inputs, t)
                [] command = "remove_user" ->
                       _handle_remove_user(st, username, args, inputs, t)
                [] command = "view_logs" ->
                       _handle_view_logs(st, username, args, t)
                [] command = "export_logs" ->
                       _handle_export_logs(st, username, args)
    ELSE Logging(st,
             Result([st EXCEPT !.log =
                        log_command(@, username, command, FALSE, t)],
                    FALSE,
                    "Unknown command: " \o command
                        \o ". Type 'help' for available commands."))

execute_command_unchecked(st, command, args, inputs, t) ==
    LET username == get_current_user(st.sessions, st.current_token)
        touched == [st EXCEPT !.sessions =
                       update_activity(@, st.current_token, t)]
    IN  _route_command(touched, _normalize_command(command), args,
                       username, inputs, t)

execute_command(st, command, args, inputs, t) ==
    IF ~is_authenticated(st.sessions, st.current_token)
    THEN Result(st, FALSE, "You must be logged in to execute commands.")
    ELSE LET username == get_current_user(st.sessions, st.current_token)
             touched == [st EXCEPT !.sessions =
                            update_activity(@, st.current_token, t)]
         IN  _route_command(touched, _normalize_command(command), args,
                            username, inputs, t)

\* ------------------------------------------------------------------ main.py
login(st, username, password, token, t) ==
    IF username = "" \/ password = ""
    THEN Result(st, FALSE, "Username and password are required.")
    ELSE LET r == authenticate(st.users, st.lockout_state, username, password)
             logged == log_login_attempt(st.log, username, r.ok, t)
             role == get_user_role(r.users, username)
             created == create_session(st.sessions, st.current_token,
                                       username, role, token, t)
             tried == [st EXCEPT !.users = r.users,
                                 !.lockout_state = r.lockout_state]
         IN  Logging(tried,
                 IF ~r.ok
                 THEN Result([tried EXCEPT !.log = logged], FALSE, r.msg)
                 ELSE Result([tried EXCEPT
                                 !.log = logged,
                                 !.sessions = created.sessions,
                                 !.current_token = created.current_token],
                             TRUE, r.msg))

\* str(e) of the exceptions the commands raise
ErrorText(exception) ==
    IF exception = "TypeError"
    THEN "CommandDispatcher._handle_export_logs() takes 2 positional "
             \o "arguments but 3 were given"
    ELSE exception

\* lines 92-113 of run(): the command is executed; an exception other than
\* EOFError and KeyboardInterrupt is logged as an ERROR and the loop goes on,
\* unless that log call raises in its turn, which nothing catches (first
\* without lines 110-113, so that the exception leaves run())
run_command_uncaught(st, command, args, inputs, t) ==
    execute_command(st, command, args, inputs, t)

run_command(st, command, args, inputs, t) ==
    LET r == execute_command(st, command, args, inputs, t)
    IN  IF r.raised \in {"", "EOFError"} THEN r
        ELSE Logging(r.st,
                 [r EXCEPT !.st.log =
                     log_error(@, get_current_user(r.st.sessions,
                                                   r.st.current_token),
                               "Error: " \o ErrorText(r.raised), t)])

\* the call made last: its name, its arguments, and what came back
Call(op, args, ok, msg) ==
    [op |-> op, args |-> args, inputs |-> <<>>,
     ok |-> ok, msg |-> msg, raised |-> ""]

\* -------------------------------------------------- AuthModule, called alone
Authenticate(username, password) ==
    LET r == authenticate(users, lockout_state, username, password)
    IN  /\ users' = r.users
        /\ lockout_state' = r.lockout_state
        /\ last' = Call("authenticate", <<username, password>>, r.ok, r.msg)
        /\ UNCHANGED <<sessions, current_token, log, csv, now>>

AddUser(username, password, role) ==
    LET r == add_user(users, lockout_state, username, password, role)
    IN  /\ users' = r.users
        /\ lockout_state' = r.lockout_state
        /\ last' = Call("add_user", <<username, password, role>>, r.ok, r.msg)
        /\ UNCHANGED <<sessions, current_token, log, csv, now>>

RemoveUser(username) ==
    LET r == remove_user(users, lockout_state, username)
    IN  /\ users' = r.users
        /\ lockout_state' = r.lockout_state
        /\ last' = Call("remove_user", <<username>>, r.ok, r.msg)
        /\ UNCHANGED <<sessions, current_token, log, csv, now>>

UnlockUser(username) ==
    LET r == unlock_user(users, lockout_state, username)
    IN  /\ users' = r.users
        /\ lockout_state' = r.lockout_state
        /\ last' = Call("unlock_user", <<username>>, r.ok, r.msg)
        /\ UNCHANGED <<sessions, current_token, log, csv, now>>

ChangePassword(username, old_password, new_password) ==
    LET r == change_password(users, lockout_state, username,
                             old_password, new_password)
    IN  /\ users' = r.users
        /\ lockout_state' = r.lockout_state
        /\ last' = Call("change_password",
                        <<username, old_password, new_password>>, r.ok, r.msg)
        /\ UNCHANGED <<sessions, current_token, log, csv, now>>

\* a new process over the files the old one left: AccessControlSystem()
Restart ==
    /\ users' = _ensure_users_file(TRUE, users)
    /\ lockout_state' = EmptyDict
    /\ sessions' = EmptyDict
    /\ current_token' = None
    /\ log' = _ensure_log_file(TRUE, log)
    /\ last' = Call("restart", <<>>, TRUE, "")
    /\ UNCHANGED <<csv, now>>

\* first start: no users.json, no logs.txt
Init ==
    /\ users = _ensure_users_file(FALSE, EmptyDict)
    /\ lockout_state = EmptyDict
    /\ sessions = EmptyDict
    /\ current_token = None
    /\ log = _ensure_log_file(FALSE, <<>>)
    /\ csv = <<>>
    /\ now = 0
    /\ last = Call("restart", <<>>, TRUE, "")
    /\ lock_history = [u \in Usernames |-> "clear"]
    /\ consecutive_wrong = [u \in Usernames |-> 0]
    /\ wrong_since_success = [u \in Usernames |-> [count |-> 0, wiped |-> 0]]

\* ---------------------------------------------------------------- histories
IsLocked(us, u) == u \in DOMAIN us /\ us[u].locked

WrongPassword(us, u, p) ==
    u \in DOMAIN us /\ us[u].password_hash # _hash_password(p)

Min(a, b) == IF a < b THEN a ELSE b

\* "locked": the record was locked and neither unlock_user nor remove_user
\* was called for the username since; "locked_removed": locked, then removed,
\* and no unlock_user called since; "unlocked": unlock_user was called on the
\* locked record and it was not locked again; "clear" otherwise
LockHistoryNext(u) ==
    IF last'.op = "unlock_user" /\ last'.args[1] = u
    THEN IF IsLocked(users, u) THEN "unlocked"
         ELSE IF lock_history[u] = "unlocked" THEN "unlocked" ELSE "clear"
    ELSE IF IsLocked(users', u) /\ ~IsLocked(users, u) THEN "locked"
    ELSE IF last'.op = "remove_user" /\ last'.args[1] = u
            /\ lock_history[u] = "locked" THEN "locked_removed"
    ELSE lock_history[u]

\* wrong-password authenticate calls for u in a row, the first of them made
\* when u was stored, unlocked and had counter 0; any other call for u and
\* a restart end the row
ConsecutiveWrongNext(u) ==
    IF last'.op = "authenticate" /\ last'.args[1] = u
    THEN IF WrongPassword(users, u, last'.args[2])
         THEN IF consecutive_wrong[u] > 0
              THEN Min(consecutive_wrong[u] + 1, MAX_FAILED_ATTEMPTS)
              ELSE IF ~users[u].locked /\ Get(lockout_state, u, 0) = 0
                   THEN 1 ELSE 0
         ELSE 0
    ELSE IF last'.op = "restart" THEN 0
    ELSE IF last'.args[1] = u THEN 0
    ELSE consecutive_wrong[u]

\* count: wrong-password authenticate calls for u since the last successful
\* one; wiped: the count that successful call found
WrongSinceSuccessNext(u) ==
    IF last'.op = "authenticate" /\ last'.args[1] = u
    THEN IF last'.ok
         THEN [count |-> 0, wiped |-> wrong_since_success[u].count]
         ELSE IF WrongPassword(users, u, last'.args[2])
              THEN [wrong_since_success[u] EXCEPT
                       !.count = Min(@ + 1, MAX_FAILED_ATTEMPTS)]
              ELSE wrong_since_success[u]
    ELSE wrong_since_success[u]

\* which histories a specification keeps; the others stay as they are
RecordLockHistory ==
    /\ lock_history' = [u \in Usernames |-> LockHistoryNext(u)]
    /\ consecutive_wrong' = [u \in Usernames |-> ConsecutiveWrongNext(u)]
    /\ UNCHANGED wrong_since_success

RecordWrongSinceSuccess ==
    /\ wrong_since_success' = [u \in Usernames |-> WrongSinceSuccessNext(u)]
    /\ UNCHANGED <<lock_history, consecutive_wrong>>

\* the Authenticator's operations in any order
NextAuth ==
    \/ \E u \in Usernames, p \in Passwords :
           Authenticate(u, p) /\ UNCHANGED history
    \/ \E u \in Usernames, p \in Passwords, r \in RoleArgs :
           AddUser(u, p, r) /\ UNCHANGED history
    \/ \E u \in Usernames : RemoveUser(u) /\ UNCHANGED history
    \/ \E u \in Usernames : UnlockUser(u) /\ UNCHANGED history
    \/ \E u \in Usernames, o \in Passwords, n \in Passwords :
           ChangePassword(u, o, n) /\ UNCHANGED history
    \/ Restart /\ UNCHANGED history

SpecAuth == Init /\ [][NextAuth]_vars

\* the same, keeping the lock history and the rows of wrong passwords
NextAuthLock ==
    \/ \E u \in Usernames, p \in Passwords :
           Authenticate(u, p) /\ RecordLockHistory
    \/ \E u \in Usernames, p \in Passwords, r \in RoleArgs :
           AddUser(u, p, r) /\ RecordLockHistory
    \/ \E u \in Usernames : RemoveUser(u) /\ RecordLockHistory
    \/ \E u \in Usernames : UnlockUser(u) /\ RecordLockHistory
    \/ \E u \in Usernames, o \in Passwords, n \in Passwords :
           ChangePassword(u, o, n) /\ RecordLockHistory
    \/ Restart /\ RecordLockHistory

SpecAuthLock == Init /\ [][NextAuthLock]_vars

\* a process started over a users.json that add_user calls of earlier
\* processes built: any stored users, none locked, no failed attempts yet
UnlockedRecords ==
    [password_hash : {_hash_password(p) : p \in Passwords},
     role : {"admin", "user"}, locked : {FALSE}]

StoresOfUnlockedUsers ==
    UNION {[S -> UnlockedRecords] : S \in (SUBSET Usernames) \ {{}}}

InitStreak ==
    /\ users \in StoresOfUnlockedUsers
    /\ lockout_state = EmptyDict
    /\ sessions = EmptyDict
    /\ current_token = None
    /\ log = _ensure_log_file(FALSE, <<>>)
    /\ csv = <<>>
    /\ now = 0
    /\ last = Call("restart", <<>>, TRUE, "")
    /\ lock_history = [u \in Usernames |-> "clear"]
    /\ consecutive_wrong = [u \in Usernames |-> 0]
    /\ wrong_since_success = [u \in Usernames |-> [count |-> 0, wiped |-> 0]]

\* authenticate calls only, keeping the wrong passwords since the last success
NextAuthStreak ==
    /\ \E u \in Usernames, p \in Passwords : Authenticate(u, p)
    /\ RecordWrongSinceSuccess

SpecAuthStreak == InitStreak /\ [][NextAuthStreak]_vars

TypeOK ==
    /\ DOMAIN users \subseteq Usernames
    /\ DOMAIN lockout_state \subseteq Usernames
    /\ \A u \in DOMAIN lockout_state : lockout_state[u] \in 0..MAX_FAILED_ATTEMPTS

\* ------------------------------------------------ SessionManager, called alone
CreateSession(username, role, token) ==
    LET r == create_session(sessions, current_token, username, role, token, now)
    IN  /\ token \notin DOMAIN sessions
        /\ sessions' = r.sessions
        /\ current_token' = r.current_token
        /\ last' = Call("create_session", <<username, role>>, TRUE, token)
        /\ UNCHANGED <<users, lockout_state, log, csv, now, history>>

EndSession ==
    LET r == end_session(sessions, current_token)
    IN  /\ sessions' = r.sessions
        /\ current_token' = r.current_token
        /\ last' = Call("end_session", <<>>, TRUE, "")
        /\ UNCHANGED <<users, lockout_state, log, csv, now, history>>

UpdateActivity ==
    /\ sessions' = update_activity(sessions, current_token, now)
    /\ last' = Call("update_activity", <<>>, TRUE, "")
    /\ UNCHANGED <<users, lockout_state, current_token, log, csv, now,
                   history>>

\* ------------------------------------------------------- Logger, called alone
ExportToCsv ==
    LET r == export_to_csv(log)
    IN  /\ csv' = r.csv
        /\ last' = Call("export_to_csv", <<>>, r.ok, r.msg)
        /\ UNCHANGED <<users, lockout_state, sessions, current_token, log,
                       now, history>>

\* time passes
Tick ==
    /\ now < MaxClock
    /\ now' = now + 1
    /\ last' = Call("tick", <<>>, TRUE, "")
    /\ UNCHANGED <<users, lockout_state, sessions, current_token, log, csv,
                   history>>

NextSession ==
    \/ \E u \in Usernames, r \in {"admin", "user"}, k \in Tokens :
           CreateSession(u, r, k)
    \/ EndSession
    \/ UpdateActivity
    \/ Tick

SpecSession == Init /\ [][NextSession]_vars

\* ----------------------------------------------------------------- the console
\* the objects and files of the process; appendable: logs.txt can be
\* opened for appending
St ==
    [users |-> users, lockout_state |-> lockout_state, sessions |-> sessions,
     current_token |-> current_token, log |-> log, appendable |-> TRUE]

\* the same while logs.txt cannot be opened for appending
StLogFails == [St EXCEPT !.appendable = FALSE]

\* the state and the answer a console operation leaves
Leaves(r, op, args, inputs) ==
    /\ users' = r.st.users
    /\ lockout_state' = r.st.lockout_state
    /\ sessions' = r.st.sessions
    /\ current_token' = r.st.current_token
    /\ log' = r.st.log
    /\ last' = [op |-> op, args |-> args, inputs |-> inputs,
                ok |-> r.ok, msg |-> r.msg, raised |-> r.raised]
    /\ UNCHANGED <<csv, now, history>>

\* the step leaves at most n entries after the header line of logs.txt
Within(n) == Len(log') <= n + 1

\* tokens are opaque and only ever compared for equality: the console draws
\* the first unused one, any other draw being the same run with tokens renamed
FirstUnused(ss) ==
    LET Unused(i) == ("t" \o ToString(i)) \notin DOMAIN ss
        first == CHOOSE i \in 1..MaxTokens :
                     Unused(i) /\ \A h \in 1..(i - 1) : ~Unused(h)
    IN  "t" \o ToString(first)

\* AccessControlSystem.login, which run() calls while no session is active
Login(username, password) ==
    /\ ~is_authenticated(sessions, current_token)
    /\ Tokens \ DOMAIN sessions # {}
    /\ Leaves(login(St, username, password, FirstUnused(sessions), now),
              "login", <<username, password>>, <<>>)

\* the process runs until an exception leaves run()
Running == last.raised \notin {"EOFError", "OSError"}

\* login while logs.txt cannot be appended to
LoginLogFails(username, password) ==
    /\ ~is_authenticated(sessions, current_token)
    /\ Tokens \ DOMAIN sessions # {}
    /\ Leaves(login(StLogFails, username, password,
                    FirstUnused(sessions), now),
              "login", <<username, password>>, <<>>)

\* a command while logs.txt cannot be appended to
ExecuteCommandLogFails(command, args, inputs) ==
    LET r == run_command(StLogFails, command, args, inputs, now)
    IN  /\ r.raised \in {"", "TypeError", "EOFError", "OSError"}
        /\ Leaves(r, "execute_command", <<command>> \o args, inputs)

ExecuteCommand(command, args, inputs) ==
    LET r == run_command(St, command, args, inputs, now)
    IN  /\ r.raised \in {"", "TypeError", "EOFError"}
        /\ Leaves(r, "execute_command", <<command>> \o args, inputs)

Commands ==
    {"help", "status", "logout", "change_password", "add_user", "remove_user",
     "view_logs", "export_logs", "unlock_user", "unlock user",
     "exit voice mode", "STATUS"}

\* the argument lists typed after a command
ArgLists(command) ==
    LET c == _normalize_command(command)
    IN  CASE c = "change_password" ->
                 {<<>>, <<"pass">>, <<"admin123", "pass">>,
                  <<"pass", "admin123">>, <<"admin123", "abc">>,
                  <<"admin123", "pass", "x">>}
          [] c = "add_user" ->
                 {<<>>, <<"bob">>, <<"bob", "pass">>, <<"bob", "abc">>,
                  <<"al", "pass">>, <<"admin", "pass">>,
                  <<"bob", "pass", "root">>}
          [] c = "view_logs" -> {<<>>, <<"0">>, <<"2">>, <<"x">>}
          [] c \in {"remove_user", "unlock_user"} ->
                 {<<>>, <<"bob">>, <<"admin">>}
          [] OTHER -> {<<>>}

\* what is typed at the prompts of a command; a command prompts only once
\* execute_command has let it through to a handler that reads input()
PromptInputs(command, args) ==
    LET c == _normalize_command(command)
        admin == is_admin(sessions, current_token)
    IN  IF ~is_authenticated(sessions, current_token)
        THEN {<<>>}
        ELSE IF c = "change_password" /\ args = <<>>
        THEN {<<EOF>>, <<"admin123", "pass">>, <<"pass", "abc">>}
        ELSE IF c = "add_user" /\ args = <<>> /\ admin
        THEN {<<EOF>>, <<"bob", "pass", "">>, <<"bob", "pass", "admin">>}
        ELSE IF c = "remove_user" /\ Len(args) >= 1 /\ admin
        THEN {<<EOF>>, <<"yes">>, <<"no">>}
        ELSE {<<>>}

\* a process started over the users.json earlier processes left, with a
\* new logs.txt
StoredBob(locked) ==
    Put(default_users, "bob",
        [password_hash |-> _hash_password("pass"),
         role |-> "user", locked |-> locked])

InitConsole ==
    /\ users \in {default_users, StoredBob(FALSE)}
    /\ lockout_state = EmptyDict
    /\ sessions = EmptyDict
    /\ current_token = None
    /\ log = _ensure_log_file(FALSE, <<>>)
    /\ csv = <<>>
    /\ now = 0
    /\ last = Call("restart", <<>>, TRUE, "")
    /\ lock_history = [u \in Usernames |-> "clear"]
    /\ consecutive_wrong = [u \in Usernames |-> 0]
    /\ wrong_since_success = [u \in Usernames |-> [count |-> 0, wiped |-> 0]]

\* one argument list for each command
AuditArgs(command) ==
    IF command = "add_user" THEN {<<"bob", "pass">>} ELSE {<<>>}

\* run(): logins until one succeeds, then commands while the session lasts
NextConsole ==
    \/ \E u \in Usernames \cup {""}, p \in Passwords :
           Running /\ Login(u, p) /\ Within(MaxLog)
    \/ \E c \in Commands :
           \E a \in ArgLists(c) :
               \E i \in PromptInputs(c, a) :
                   /\ Running
                   /\ is_authenticated(sessions, current_token)
                   /\ ExecuteCommand(c, a, i)
                   /\ Within(MaxLog)
    \/ Restart /\ UNCHANGED history

SpecConsole == InitConsole /\ [][NextConsole]_vars

\* the dispatcher called by any caller, with or without a session; with a
\* session, the commands that end it or change the stored users
SessionCommands == {"logout", "add_user"}

NextDispatcher ==
    \/ \E u \in Usernames, p \in Passwords :
           Login(u, p) /\ Within(MaxLog)
    \/ \E c \in Commands :
           \E a \in ArgLists(c) :
               /\ ~is_authenticated(sessions, current_token)
               /\ ExecuteCommand(c, a, <<>>)
    \/ \E c \in SessionCommands :
           \E a \in AuditArgs(c) :
               /\ is_authenticated(sessions, current_token)
               /\ ExecuteCommand(c, a, <<>>)
               /\ Within(MaxLog)
    \/ Restart /\ UNCHANGED history

SpecDispatcher == InitConsole /\ [][NextDispatcher]_vars

\* the console of an administrator who removes users: logins and remove_user
\* commands only, over a log one entry longer
NextConsoleRemove ==
    \/ \E u \in Usernames, p \in Passwords :
           Running /\ Login(u, p) /\ Within(MaxLog + 1)
    \/ \E c \in {"remove_user", "remove user"} :
           \E a \in ArgLists(c) :
               \E i \in PromptInputs(c, a) :
                   /\ Running
                   /\ is_authenticated(sessions, current_token)
                   /\ ExecuteCommand(c, a, i)
                   /\ Within(MaxLog + 1)
    \/ Restart /\ UNCHANGED history

SpecConsoleRemove == InitConsole /\ [][NextConsoleRemove]_vars

\* the console and the audit log: logins, the commands that write each level
\* of entry, exports of the log and restarts
AuditCommands == {"view_logs", "export_logs", "add_user"}

NextAudit ==
    \/ \E u \in Usernames : Login(u, "admin123") /\ Within(MaxLog)
    \/ \E c \in AuditCommands :
           \E a \in AuditArgs(c) :
               /\ is_authenticated(sessions, current_token)
               /\ ExecuteCommand(c, a, <<>>)
               /\ Within(MaxLog)
    \/ ExportToCsv
    \/ Restart /\ UNCHANGED history

SpecAudit == InitConsole /\ [][NextAudit]_vars

\* the console while time passes between the commands of a session: one
\* command for each outcome, and logout
IdleCommands ==
    {"status", "change_password", "add_user", "unlock user", "export_logs",
     "logout"}

IdleArgs(command) ==
    CASE command = "add_user" -> {<<"bob", "pass">>}
      [] command = "change_password" -> {<<"pass">>}
      [] OTHER -> {<<>>}

NextIdle ==
    \/ \E u \in Usernames, p \in Passwords :
           Running /\ Login(u, p) /\ Within(MaxLog)
    \/ \E c \in IdleCommands :
           \E a \in IdleArgs(c) :
               /\ Running
               /\ is_authenticated(sessions, current_token)
               /\ ExecuteCommand(c, a, <<>>)
               /\ Within(MaxLog)
    \/ Tick
    \/ Restart /\ UNCHANGED history

SpecIdle == InitConsole /\ [][NextIdle]_vars

\* the console of the administrators: a process started over the users.json
\* in which the default admin has added bob as a second admin, or has not yet
StoredAdmins ==
    Put(default_users, "bob",
        [password_hash |-> _hash_password("pass"),
         role |-> "admin", locked |-> FALSE])

InitAdmins ==
    /\ users \in {default_users, StoredAdmins}
    /\ lockout_state = EmptyDict
    /\ sessions = EmptyDict
    /\ current_token = None
    /\ log = _ensure_log_file(FALSE, <<>>)
    /\ csv = <<>>
    /\ now = 0
    /\ last = Call("restart", <<>>, TRUE, "")
    /\ lock_history = [u \in Usernames |-> "clear"]
    /\ consecutive_wrong = [u \in Usernames |-> 0]
    /\ wrong_since_success = [u \in Usernames |-> [count |-> 0, wiped |-> 0]]

AdminCommands == {"add_user", "remove_user", "logout"}

AdminArgs(command) ==
    CASE command = "add_user" ->
             {<<"bob", "pass", "admin">>, <<"bob", "pass">>,
              <<"admin", "admin123", "user">>}
      [] command = "remove_user" -> {<<"bob">>, <<"admin">>}
      [] OTHER -> {<<>>}

AdminInputs(command) ==
    IF command = "remove_user" /\ is_admin(sessions, current_token)
    THEN {<<"yes">>, <<"no">>}
    ELSE {<<>>}

NextAdmins ==
    \/ \E u \in Usernames, p \in Passwords :
           Running /\ Login(u, p) /\ Within(MaxLog)
    \/ \E c \in AdminCommands :
           \E a \in AdminArgs(c) :
               \E i \in AdminInputs(c) :
                   /\ Running
                   /\ is_authenticated(sessions, current_token)
                   /\ ExecuteCommand(c, a, i)
                   /\ Within(MaxLog)
    \/ Restart /\ UNCHANGED history

SpecAdmins == InitAdmins /\ [][NextAdmins]_vars

\* the console while logs.txt can at times not be appended to
LogFailCommands ==
    {"status", "logout", "view_logs", "add_user", "remove_user",
     "change_password", "unlock_user"}

LogFailArgs(command) ==
    CASE command = "add_user" -> {<<"bob", "pass">>}
      [] command = "remove_user" -> {<<"bob">>}
      [] command = "unlock_user" -> {<<"bob">>}
      [] command = "change_password" -> {<<"admin123", "pass">>}
      [] OTHER -> {<<>>}

NextLogFails ==
    \/ \E u \in Usernames, p \in Passwords :
           Running /\ Login(u, p) /\ Within(MaxLog)
    \/ \E u \in Usernames, p \in Passwords :
           Running /\ LoginLogFails(u, p)
    \/ \E c \in LogFailCommands :
           \E a \in LogFailArgs(c) :
               \E i \in PromptInputs(c, a) \ {<<EOF>>} :
                   /\ Running
                   /\ is_authenticated(sessions, current_token)
                   /\ ExecuteCommand(c, a, i)
                   /\ Within(MaxLog)
    \/ \E c \in LogFailCommands :
           \E a \in LogFailArgs(c) :
               \E i \in PromptInputs(c, a) \ {<<EOF>>} :
                   /\ Running
                   /\ is_authenticated(sessions, current_token)
                   /\ ExecuteCommandLogFails(c, a, i)
    \/ Restart /\ UNCHANGED history

SpecLogFails == InitConsole /\ [][NextLogFails]_vars

\* ================================================================== claims
LockedNow == "Account locked due to too many failed login attempts."

AlreadyLocked == "Account is locked. Please contact an administrator."

AuthenticateOf(call, u) == call.op = "authenticate" /\ call.args[1] = u

\* the third wrong password in a row, counted from counter 0, locks the
\* stored record and is reported as locked
ThirdFailureLocks ==
    \A u \in Usernames :
        (consecutive_wrong[u] = 2 /\ consecutive_wrong'[u] = 3)
            => /\ IsLocked(users', u)
               /\ ~last'.ok
               /\ last'.msg = LockedNow

\* C1 as stated: for a stored, unlocked user with counter 0 the third
\* consecutive wrong password locks the record and reports it, and every
\* later authenticate call for that user fails as locked for as long as
\* unlock_user was not called for that user.
C1_Original ==
    /\ [][ThirdFailureLocks]_vars
    /\ [](\A u \in Usernames :
            (lock_history[u] \in {"locked", "locked_removed"}
                /\ AuthenticateOf(last, u))
                => (~last.ok /\ last.msg \in {LockedNow, AlreadyLocked}))

\* C1 amended: ... for as long as neither unlock_user nor remove_user was
\* called for that user.
C1_LockedUntilUnlockOrRemove ==
    /\ [][ThirdFailureLocks]_vars
    /\ [](\A u \in Usernames :
            (lock_history[u] = "locked" /\ AuthenticateOf(last, u))
                => (~last.ok /\ last.msg \in {LockedNow, AlreadyLocked}))

\* a locked user tried the correct password and was turned away
C1_Witness ==
    \E u \in Usernames :
        /\ lock_history[u] = "locked"
        /\ AuthenticateOf(last, u)
        /\ ~WrongPassword(users, u, last.args[2])
        /\ last.msg = AlreadyLocked

\* C2: right after a successful unlock_user(u) the record is unlocked, the
\* counter of u is 0 and authenticate(u, correct password) succeeds.
C2_UnlockThenAuthenticate ==
    \A u \in Usernames :
        (last.op = "unlock_user" /\ last.args[1] = u /\ last.ok)
            => /\ u \in DOMAIN users
               /\ ~users[u].locked
               /\ Get(lockout_state, u, 0) = 0
               /\ \A p \in Passwords :
                      ~WrongPassword(users, u, p)
                          => authenticate(users, lockout_state, u, p).ok

\* unlock_user has just unlocked a record that was locked
C2_Witness ==
    \E u \in Usernames :
        /\ last.op = "unlock_user" /\ last.args[1] = u /\ last.ok
        /\ lock_history[u] = "unlocked"
        /\ u \in DOMAIN lockout_state

\* C3 as stated: once a record is locked, no later state without an
\* unlock_user for that username in between has a record of that username
\* with locked = false.
C3_Original ==
    \A u \in Usernames :
        lock_history[u] \in {"locked", "locked_removed"}
            => ~(u \in DOMAIN users /\ ~users[u].locked)

\* C3 amended: once a record is locked it stays stored and locked for as
\* long as neither unlock_user nor remove_user is called for that username.
C3_LockedUntilUnlockOrRemove ==
    \A u \in Usernames : lock_history[u] = "locked" => IsLocked(users, u)

\* add_user was tried on a locked username, which did not touch the lock
C3_Witness ==
    \E u \in Usernames :
        /\ lock_history[u] = "locked"
        /\ last.op = "add_user" /\ last.args[1] = u

\* C9: a successful authenticate resets the counter to 0, and authenticate
\* locks an unlocked record only when three wrong passwords came since the
\* last success.
C9_ConsecutiveFailures ==
    [][\A u \in Usernames :
          AuthenticateOf(last', u)
              => /\ last'.ok => (u \in DOMAIN lockout_state'
                                   /\ lockout_state'[u] = 0)
                 /\ (~IsLocked(users, u) /\ IsLocked(users', u))
                        => wrong_since_success'[u].count >= 3]_vars

\* wrong, wrong, correct, wrong, wrong: unlocked with counter 2
C9_Witness ==
    \E u \in Usernames :
        /\ wrong_since_success[u] = [count |-> 2, wiped |-> 2]
        /\ u \in DOMAIN users /\ ~users[u].locked
        /\ lockout_state[u] = 2

\* C10: a wrong password for an unlocked stored user with counter c < 3 sets
\* the counter to c + 1 and reports 3 - (c + 1) remaining attempts, or the
\* lock when c + 1 = 3.
C10_RemainingAttempts ==
    [][\A u \in Usernames, c \in 0..(MAX_FAILED_ATTEMPTS - 1) :
          (/\ AuthenticateOf(last', u)
           /\ u \in DOMAIN users /\ ~users[u].locked
           /\ Get(lockout_state, u, 0) = c
           /\ WrongPassword(users, u, last'.args[2]))
              => /\ lockout_state'[u] = c + 1
                 /\ ~last'.ok
                 /\ last'.msg =
                        CASE c = 0 -> "Invalid password. 2 attempt(s) remaining."
                          [] c = 1 -> "Invalid password. 1 attempt(s) remaining."
                          [] c = 2 -> LockedNow]_vars

\* the second wrong password in a row was answered with one attempt left
C10_Witness ==
    \E u \in Usernames :
        /\ AuthenticateOf(last, u)
        /\ last.msg = "Invalid password. 1 attempt(s) remaining."
        /\ lockout_state[u] = 2

ExecuteOf(call, command) ==
    call.op = "execute_command" /\ call.args[1] = command

AdminGated ==
    {"add_user", "remove_user", "view_logs", "export_logs", "unlock_user"}

PermissionDenied == "Permission denied: Admin access required."

MustLogIn == "You must be logged in to execute commands."

\* the entries a step appended to the audit log
Appended == SubSeq(log', Len(log) + 1, Len(log'))

AppendedLevels == {Appended[i].level : i \in 1..Len(Appended)}

\* C4: with a session whose role is not admin, each of add_user, remove_user,
\* view_logs, export_logs and unlock_user, with any arguments, is answered
\* with the permission-denied failure and leaves the credential store as it
\* was.
C4_NonAdminDenied ==
    [][(/\ is_authenticated(sessions, current_token)
        /\ ~is_admin(sessions, current_token)
        /\ last'.op = "execute_command"
        /\ last'.args[1] \in AdminGated)
           => /\ ~last'.ok
              /\ last'.raised = ""
              /\ last'.msg = PermissionDenied
              /\ users' = users]_vars

\* C5: without an active session execute_command answers every command with
\* the must-be-logged-in failure and changes neither the credential store,
\* the lockout counters, the audit log nor the session registry.
C5_RejectedWithoutSession ==
    [][(/\ ~is_authenticated(sessions, current_token)
        /\ last'.op = "execute_command")
           => /\ ~last'.ok
              /\ last'.raised = ""
              /\ last'.msg = MustLogIn
              /\ UNCHANGED <<users, lockout_state, log, sessions,
                             current_token>>]_vars

\* an admin command with arguments was turned away for want of a session
C5_Witness ==
    /\ ExecuteOf(last, "add_user")
    /\ last.args = <<"add_user", "bob", "pass">>
    /\ last.msg = MustLogIn
    /\ ~is_authenticated(sessions, current_token)

\* C6: with an admin session, execute_command('unlock_user', [u]) for a
\* stored user u succeeds, clears the locked flag of u, sets the counter of
\* u to 0 and appends an ADMIN entry to the audit log.
C6_AdminUnlocks ==
    [][\A u \in Usernames :
          (/\ is_admin(sessions, current_token)
           /\ last'.op = "execute_command"
           /\ last'.args = <<"unlock_user", u>>
           /\ u \in DOMAIN users)
              => /\ last'.ok
                 /\ ~IsLocked(users', u)
                 /\ Get(lockout_state', u, 0) = 0
                 /\ "ADMIN" \in AppendedLevels]_vars

\* C7: with an admin session, execute_command('export_logs', []) returns the
\* (success, message) pair of the export instead of raising, and appends an
\* ADMIN entry exactly when the export succeeded.
C7_ExportReturns ==
    [][(/\ is_admin(sessions, current_token)
        /\ last'.op = "execute_command"
        /\ last'.args = <<"export_logs">>)
           => /\ last'.raised = ""
              /\ last'.ok <=> "ADMIN" \in AppendedLevels]_vars

\* C8: after end_session, and so after create_session then end_session, no
\* session is authenticated; a
\* second create_session before any end_session makes its token the current
\* one in place of the first, and the current user, role and info are those
\* of the second session.
C8_SessionReplaced ==
    [][/\ last'.op = "end_session"
             => ~is_authenticated(sessions', current_token')
       /\ (is_authenticated(sessions, current_token)
             /\ last'.op = "create_session")
             => /\ current_token' = last'.msg
                /\ current_token' # current_token
                /\ is_authenticated(sessions', current_token')
                /\ get_current_user(sessions', current_token') = last'.args[1]
                /\ get_current_role(sessions', current_token') = last'.args[2]
                /\ get_session_info(sessions', current_token') =
                       [username |-> last'.args[1], role |-> last'.args[2],
                        created_at |-> now, last_activity |-> now]]_vars

\* a second session was created for another user while the first was active
C8_Witness ==
    /\ last.op = "create_session"
    /\ is_authenticated(sessions, current_token)
    /\ \E k \in DOMAIN sessions :
           /\ k # current_token
           /\ sessions[k].username # sessions[current_token].username
           /\ get_current_user(sessions, current_token) = last.args[1]

UnknownIdentity == "Invalid username or password"

\* C11: authenticate for a username that is not in the store, with any
\* password, fails with 'Invalid username or password' and leaves the stored
\* users as they were, so no record and no locked flag comes of such calls.
C11_UnknownIdentity ==
    [][\A u \in Usernames :
          (AuthenticateOf(last', u) /\ u \notin DOMAIN users)
              => /\ ~last'.ok
                 /\ last'.msg = UnknownIdentity
                 /\ users' = users]_vars

\* authenticate was called for the removed default admin
C11_Witness ==
    /\ AuthenticateOf(last, "admin")
    /\ "admin" \notin DOMAIN users
    /\ last.msg = UnknownIdentity

\* C12: a restart leaves every lockout counter at 0 and the stored users as
\* they were: locked records stay locked and the default admin is not
\* written again over a store that exists.
C12_RestartKeepsStore ==
    [][last'.op = "restart"
          => /\ \A u \in Usernames : Get(lockout_state', u, 0) = 0
             /\ users' = users
             /\ \A u \in Usernames : IsLocked(users, u) => IsLocked(users', u)
      ]_vars

\* a restart over a store with a locked record
C12_Witness ==
    /\ last.op = "restart"
    /\ \E u \in Usernames : IsLocked(users, u)
    /\ lockout_state = EmptyDict

\* C13: authenticate leaves the stored users as they were when it succeeds,
\* when the username is unknown, when the record is already locked, and when
\* the password is wrong and the failure is not the third.
C13_WritesOnlyOnLock ==
    [][\A u \in Usernames :
          (/\ AuthenticateOf(last', u)
           /\ \/ last'.ok
              \/ u \notin DOMAIN users
              \/ IsLocked(users, u)
              \/ /\ WrongPassword(users, u, last'.args[2])
                 /\ Get(lockout_state, u, 0) + 1 < MAX_FAILED_ATTEMPTS)
              => users' = users]_vars

\* the second wrong password in a row came back without a lock
C13_Witness ==
    \E u \in Usernames :
        /\ AuthenticateOf(last, u)
        /\ WrongPassword(users, u, last.args[2])
        /\ Get(lockout_state, u, 0) = 2
        /\ ~IsLocked(users, u)

\* C20 as stated: authenticate for a username that is not in the store adds
\* one to the lockout counter kept for that username.
C20_Original ==
    [][\A u \in Usernames :
          (AuthenticateOf(last', u) /\ u \notin DOMAIN users)
              => Get(lockout_state', u, 0) = Get(lockout_state, u, 0) + 1
      ]_vars

\* C20 amended: authenticate for a username that is not in the store leaves
\* every lockout counter as it was, and no counter is kept for a username
\* that is not in the store.
C20_UnknownNotCounted ==
    [][\A u \in Usernames :
          (AuthenticateOf(last', u) /\ u \notin DOMAIN users)
              => /\ lockout_state' = lockout_state
                 /\ u \notin DOMAIN lockout_state']_vars

\* an unknown username was tried while another user had failures counted
C20_Witness ==
    \E u \in Usernames :
        /\ AuthenticateOf(last, u)
        /\ u \notin DOMAIN users
        /\ u \notin DOMAIN lockout_state
        /\ \E v \in DOMAIN lockout_state : lockout_state[v] > 0

\* C14: with a session, execute_command('change_password', [old, new]) with
\* a new password of fewer than 4 characters fails, whether or not old is the
\* current password, and leaves the stored users, the caller's hash among
\* them, as they were; change_password of the Authenticator is not reached,
\* so no outcome is logged either.
C14_ShortNewPasswordRejected ==
    [][(/\ is_authenticated(sessions, current_token)
        /\ last'.op = "execute_command"
        /\ _normalize_command(last'.args[1]) = "change_password"
        /\ Len(last'.args) = 3)
           => (Len(last'.args[3]) < MIN_PASSWORD_LEN
                  => /\ ~last'.ok
                     /\ last'.raised = ""
                     /\ users' = users
                     /\ lockout_state' = lockout_state
                     /\ log' = log)]_vars

\* the admin gave the correct current password and a 3-character new one
C14_Witness ==
    /\ last.op = "execute_command"
    /\ last.args = <<"change_password", "admin123", "abc">>
    /\ get_current_user(sessions, current_token) = "admin"
    /\ users["admin"].password_hash = _hash_password("admin123")
    /\ last.msg = "New password must be at least 4 characters"

RemoveUserOf(call) ==
    /\ call.op = "execute_command"
    /\ _normalize_command(call.args[1]) = "remove_user"
    /\ Len(call.args) >= 2

\* C15: with an admin session of user a, a remove_user command naming a is
\* never a success and leaves the stored users as they were, and is answered
\* 'Cannot remove your own account' once confirmed; a confirmed remove_user
\* command naming another stored user deletes that record and no other, and
\* drops the lockout counter of that username and no other.
C15_RemoveUser ==
    [][(is_admin(sessions, current_token) /\ RemoveUserOf(last'))
          => LET a == get_current_user(sessions, current_token)
                 target == last'.args[2]
             IN  /\ target = a
                    => /\ ~last'.ok
                       /\ users' = users
                       /\ last'.inputs = <<"yes">>
                            => last'.msg = "Cannot remove your own account"
                 /\ (target # a /\ target \in DOMAIN users
                        /\ last'.inputs = <<"yes">>)
                    => /\ last'.ok
                       /\ users' = Del(users, target)
                       /\ lockout_state' = Del(lockout_state, target)]_vars

\* the admin removed a user who had a failed login counted
C15_Witness ==
    /\ RemoveUserOf(last)
    /\ last.ok
    /\ last.args[2] = "bob"
    /\ "bob" \notin DOMAIN users
    /\ "bob" \notin DOMAIN lockout_state
    /\ \E i \in 1..Len(log) :
           /\ log[i].level = "LOGIN"
           /\ log[i].message = "Login attempt FAILED for user: bob"

\* C16: add_user(u, p, r) fails and leaves the stored users as they were
\* when u is already stored or r is neither admin nor user; otherwise it
\* succeeds and adds the one record of u, with the hash of p, role r and
\* locked = false, all other records staying as they were. Every stored
\* record therefore has role admin or user.
C16_AddUser ==
    /\ [][last'.op = "add_user"
            => LET u == last'.args[1]
                   p == last'.args[2]
                   r == last'.args[3]
               IN  IF u \in DOMAIN users \/ r \notin {"admin", "user"}
                   THEN ~last'.ok /\ users' = users
                   ELSE /\ last'.ok
                        /\ users' = Put(users, u,
                               [password_hash |-> _hash_password(p),
                                role |-> r, locked |-> FALSE])]_vars
    /\ [](\A u \in DOMAIN users : users[u].role \in {"admin", "user"})

\* add_user has just added a second administrator
C16_Witness ==
    /\ last.op = "add_user" /\ last.ok
    /\ last.args[3] = "admin"
    /\ Cardinality(DOMAIN users) = 2
    /\ \A u \in DOMAIN users : users[u].role = "admin"

\* C17: every step of the system (a login attempt, a command, an export or a
\* view of the log, the logging of an error, a restart) leaves the audit log
\* with what it held before as a prefix: entries are only ever appended.
C17_AppendOnly ==
    [][/\ Len(log') >= Len(log)
       /\ SubSeq(log', 1, Len(log)) = log]_vars

\* a restart over a log that holds an ERROR entry
C17_Witness ==
    /\ last.op = "restart"
    /\ \E i \in 1..Len(log) : log[i].level = "ERROR"

\* the row of an entry: its timestamp, level, username and message
EntryRow(entry) ==
    <<ToString(entry.timestamp), entry.level,
      IF entry.username \in {None, ""} THEN "" ELSE entry.username,
      entry.message>>

\* C19: an export of a log of N entries after the header line writes N + 1
\* rows: Timestamp, Level, Username, Message, then the row of each entry in
\* the order the entries were appended.
C19_ExportRows ==
    last.op = "export_to_csv"
        => /\ Len(csv) = (Len(log) - 1) + 1
           /\ csv[1] = CsvHeader
           /\ \A i \in 2..Len(log) : csv[i] = EntryRow(log[i])

\* a log with a LOGIN, an ADMIN and a COMMAND entry was exported
C19_Witness ==
    /\ last.op = "export_to_csv"
    /\ Len(csv) = 4
    /\ {log[i].level : i \in 2..Len(log)} = {"LOGIN", "ADMIN", "COMMAND"}

\* what the step's operation returns and leaves when the audit log can be
\* appended to
WithLogWritten ==
    IF last'.op = "login"
    THEN login(St, last'.args[1], last'.args[2], FirstUnused(sessions), now)
    ELSE run_command(St, last'.args[1], Tail(last'.args), last'.inputs, now)

\* C18: a login attempt or a command (add_user, remove_user, unlock_user,
\* change_password, status, logout, view_logs) made while the audit log
\* cannot be appended to completes all the same: it returns the (success,
\* message) pair, and leaves the stored users, the lockout counters and the
\* sessions, that it returns and leaves when the entry is appended.
C18_BestEffortLogging ==
    [][last'.op \in {"login", "execute_command"}
          => /\ last'.raised = WithLogWritten.raised
             /\ last'.ok = WithLogWritten.ok
             /\ last'.msg = WithLogWritten.msg
             /\ users' = WithLogWritten.st.users
             /\ lockout_state' = WithLogWritten.st.lockout_state
             /\ sessions' = WithLogWritten.st.sessions
             /\ current_token' = WithLogWritten.st.current_token]_vars

GeneralCommands == {"help", "status", "logout", "change_password"}

UnknownCommand(c) ==
    "Unknown command: " \o c \o ". Type 'help' for available commands."

\* C21: a command of the admin-gated set (add_user, remove_user, view_logs,
\* export_logs, unlock_user) sent by a session that is not admin appends
\* nothing to the audit log, and a command of neither the general nor the
\* admin-gated set appends exactly one COMMAND entry marked FAILED under the
\* session's user and returns the unknown-command failure.
C21_DeniedSilentUnknownLogged ==
    [][(/\ is_authenticated(sessions, current_token)
        /\ last'.op = "execute_command")
           => LET c == _normalize_command(last'.args[1])
                  u == get_current_user(sessions, current_token)
              IN  /\ (c \in AdminGated /\ ~is_admin(sessions, current_token))
                         => log' = log
                  /\ c \notin GeneralCommands \cup AdminGated
                         => /\ Len(Appended) = 1
                            /\ Appended[1].level = "COMMAND"
                            /\ Appended[1].username = u
                            /\ Appended[1].message =
                                   "Command '" \o c \o "' executed - FAILED"
                            /\ ~last'.ok
                            /\ last'.msg = UnknownCommand(c)]_vars

ChangePasswordOf(call) ==
    /\ call.op = "execute_command"
    /\ _normalize_command(call.args[1]) = "change_password"

\* C22: for a caller with a session, change_password with a number of
\* arguments other than 2 fails without raising and leaves the caller's
\* stored password hash as it was.
C22_ExactlyTwoArguments ==
    [][(/\ is_authenticated(sessions, current_token)
        /\ ChangePasswordOf(last')
        /\ Len(last'.args) - 1 # 2)
           => LET u == get_current_user(sessions, current_token)
              IN  /\ ~last'.ok
                  /\ last'.raised = ""
                  /\ users'[u].password_hash = users[u].password_hash]_vars

\* C23: for a caller with a session, every change_password appends a COMMAND
\* entry that carries the outcome of the command, whether the password was
\* changed or the command failed.
C23_OutcomeAlwaysLogged ==
    [][(/\ is_authenticated(sessions, current_token)
        /\ ChangePasswordOf(last')
        /\ last'.raised = "")
           => \E i \in 1..Len(Appended) :
                  /\ Appended[i].level = "COMMAND"
                  /\ Appended[i].username =
                         get_current_user(sessions, current_token)
                  /\ Appended[i].message =
                         "Command 'change_password' executed - "
                             \o Status(last'.ok)]_vars

\* what change_password(u, old, new) leaves of the store: nothing changes on
\* failure, and on success only the password hash of u
StoreAfterChange(u, old, new) ==
    IF u \notin DOMAIN users \/ WrongPassword(users, u, old)
    THEN ~last'.ok /\ users' = users
    ELSE /\ last'.ok
         /\ DOMAIN users' = DOMAIN users
         /\ \A v \in DOMAIN users \ {u} : users'[v] = users[v]
         /\ users'[u].role = users[u].role
         /\ users'[u].locked = users[u].locked
         /\ users'[u].password_hash = _hash_password(new)

\* authenticate(u, p) called next would fail on the password: it counts one
\* more failed attempt for u
FailsAsWrongPassword(u, p) ==
    LET r == authenticate(users', lockout_state', u, p)
    IN  /\ ~r.ok
        /\ Get(r.lockout_state, u, 0) = Get(lockout_state', u, 0) + 1

LastLines(lg, n) ==
    Join(SubSeq(lg, Len(lg) - Min(n, Len(lg)) + 1, Len(lg)))

\* C25: view_logs with a tail length n >= 0 returns the last min(n, L) lines
\* of the L lines of the log, oldest first, so none for n = 0, and all L
\* lines when no tail length is given.
C25_BoundedTail ==
    [][(/\ is_admin(sessions, current_token)
        /\ last'.op = "execute_command"
        /\ _normalize_command(last'.args[1]) = "view_logs"
        /\ last'.raised = "")
           => /\ Len(last'.args) = 1 => last'.msg = Join(log')
              /\ (/\ Len(last'.args) > 1
                  /\ int(last'.args[2]) # <<>>
                  /\ int(last'.args[2])[1] >= 0)
                     => last'.msg = LastLines(log', int(last'.args[2])[1])]_vars

LoggedOut == "Logged out successfully"

\* C26: for a caller with a session, logout appends one COMMAND entry for
\* logout, ends the session and returns (true, 'Logged out successfully');
\* from then on there is no session and every execute_command is rejected
\* with the must-be-logged-in failure, until a login succeeds and creates a
\* session.
C26_LogoutEndsSession ==
    [][/\ (/\ is_authenticated(sessions, current_token)
           /\ ExecuteOf(last', "logout"))
              => /\ last'.ok
                 /\ last'.msg = LoggedOut
                 /\ Len(Appended) = 1
                 /\ Appended[1].level = "COMMAND"
                 /\ Appended[1].username =
                        get_current_user(sessions, current_token)
                 /\ Appended[1].message = "Command 'logout' executed - SUCCESS"
                 /\ ~is_authenticated(sessions', current_token')
       /\ (/\ ~is_authenticated(sessions, current_token)
           /\ last'.op = "execute_command")
              => /\ ~last'.ok
                 /\ last'.msg = MustLogIn
                 /\ ~is_authenticated(sessions', current_token')
       /\ (/\ ~is_authenticated(sessions, current_token)
           /\ is_authenticated(sessions', current_token'))
              => /\ last'.op = "login"
                 /\ last'.ok]_vars

\* after a login and a logout, a command was rejected for want of a session
C26_Witness ==
    /\ Len(log) = 3
    /\ log[2].level = "LOGIN"
    /\ log[3].message = "Command 'logout' executed - SUCCESS"
    /\ last.op = "execute_command"
    /\ last.msg = MustLogIn
    /\ ~is_authenticated(sessions, current_token)

\* after a logout, a new login created a session
C26_WitnessLogin ==
    /\ Len(log) = 4
    /\ log[3].message = "Command 'logout' executed - SUCCESS"
    /\ last.op = "login"
    /\ is_authenticated(sessions, current_token)

\* C27: a session that is active stays active, with the same username and
\* role, over every dispatched command other than logout, whatever the
\* command returns, and over any time that passes between commands; each
\* dispatched command sets last_activity to the time of the command.
C27_NoIdleExpiry ==
    [][(/\ is_authenticated(sessions, current_token)
        /\ last'.op \in {"execute_command", "tick"}
        /\ ~ExecuteOf(last', "logout")
        /\ last'.raised # "EOFError")
           => /\ is_authenticated(sessions', current_token')
              /\ current_token' = current_token
              /\ get_current_user(sessions', current_token') =
                     get_current_user(sessions, current_token)
              /\ get_current_role(sessions', current_token') =
                     get_current_role(sessions, current_token)
              /\ sessions'[current_token].created_at =
                     sessions[current_token].created_at
              /\ last'.op = "execute_command"
                     => sessions'[current_token].last_activity = now]_vars

\* some time after its login, a session that is not admin was denied a
\* command and is still active
C27_Witness ==
    /\ is_authenticated(sessions, current_token)
    /\ last.op = "execute_command"
    /\ last.msg = PermissionDenied
    /\ sessions[current_token].created_at < now
    /\ sessions[current_token].last_activity = now

\* C28: when a command of the command loop raises an unexpected fault, the
\* loop appends one ERROR entry under the current user, the session stays as
\* it was, and the loop is still running to take the next command.
C28_FaultLoggedLoopGoesOn ==
    [][(/\ is_authenticated(sessions, current_token)
        /\ last'.op = "execute_command"
        /\ last'.raised \notin {"", "EOFError"})
           => /\ Len(Appended) = 1
              /\ Appended[1].level = "ERROR"
              /\ Appended[1].username =
                     get_current_user(sessions, current_token)
              /\ Appended[1].message = "Error: " \o ErrorText(last'.raised)
              /\ is_authenticated(sessions', current_token')
              /\ current_token' = current_token
              /\ Running']_vars

\* the command after the fault was executed in the same session
C28_Witness ==
    /\ Len(log) = 4
    /\ log[2].level = "LOGIN"
    /\ log[3].level = "ERROR"
    /\ log[4].message = "Command 'status' executed - SUCCESS"
    /\ last.op = "execute_command"
    /\ last.ok
    /\ is_authenticated(sessions, current_token)

\* C29: in every state the Authenticator reaches through authenticate,
\* add_user, remove_user, unlock_user, change_password and restarts, the
\* lockout counter c of every stored user is within 0..3, and c = 3 only
\* for a locked user; so authenticate never finds the counter of an unlocked
\* user at the threshold.
C29_CounterWithinThreshold ==
    \A u \in DOMAIN users :
        LET c == Get(lockout_state, u, 0)
        IN  /\ c \in 0..MAX_FAILED_ATTEMPTS
            /\ c = MAX_FAILED_ATTEMPTS => users[u].locked
            /\ ~users[u].locked => c < MAX_FAILED_ATTEMPTS

\* authenticate was called for a user whose counter stands at the threshold
\* and whose record is locked
C29_Witness ==
    /\ last.op = "authenticate"
    /\ ~last.ok
    /\ IsLocked(users, last.args[1])
    /\ Get(lockout_state, last.args[1], 0) = MAX_FAILED_ATTEMPTS

Admins == {u \in DOMAIN users : users[u].role = "admin"}

\* C30: from the store with the default admin, through logins, dispatched
\* commands, logouts and restarts, the stored users always include at least
\* one with role admin.
C30_AdminRemains ==
    Admins # {}

\* the default admin was removed by the second admin, who is now the only one
C30_Witness ==
    /\ last.op = "execute_command"
    /\ last.args = <<"remove_user", "admin">>
    /\ last.ok
    /\ Admins = {"bob"}

\* the only admin asked to remove its own account and was refused
C30_WitnessRefused ==
    /\ last.op = "execute_command"
    /\ last.args[1] = "remove_user"
    /\ last.msg = "Cannot remove your own account"
    /\ Admins = {get_current_user(sessions, current_token)}

\* the current session is of a stored user and carries the stored role
SessionOfStoredUser(us, ss, ct) ==
    is_authenticated(ss, ct)
        => /\ get_current_user(ss, ct) \in DOMAIN us
           /\ get_current_role(ss, ct) = us[get_current_user(ss, ct)].role

\* C31: while the system runs, an active session is of a username that is in
\* the stored users, with the role stored for that username, and a session
\* becomes active only in a login step whose authenticate succeeded for that
\* username.
C31_SessionMatchesStore ==
    [][/\ SessionOfStoredUser(users', sessions', current_token')
       /\ (/\ is_authenticated(sessions', current_token')
           /\ \/ ~is_authenticated(sessions, current_token)
              \/ current_token' # current_token)
              => /\ last'.op = "login"
                 /\ last'.ok
                 /\ last'.msg = "Login successful"
                 /\ get_current_user(sessions', current_token') = last'.args[1]
                 /\ authenticate(users, lockout_state,
                                 last'.args[1], last'.args[2]).ok]_vars

\* the session of the second admin, still matching the store after that
\* admin removed the default admin
C31_Witness ==
    /\ is_authenticated(sessions, current_token)
    /\ get_current_user(sessions, current_token) = "bob"
    /\ get_current_role(sessions, current_token) = "admin"
    /\ users["bob"].role = "admin"
    /\ "admin" \notin DOMAIN users
    /\ last.op = "execute_command"

====
